---- MODULE Spec2Model ----
(***************************************************************************)
(* The conversion request pipeline of cad-engine/main.py: the two          *)
(* endpoints POST /convert/step-to-stl (binary) and                        *)
(* POST /convert/step-to-stl-base64 behind the slowapi rate limiter, the   *)
(* temp directory they share, and cleanup_files.                           *)
(*                                                                         *)
(* Both handlers are coroutines on one event loop: a handler runs without  *)
(* interleaving from one await to the next.  The only await inside a       *)
(* handler is `await file.read()`; the response is transmitted, and the    *)
(* background task run, after the handler has returned.  The variable      *)
(* `loop` holds the slot whose handler is running; 0 when the loop is free.*)
(***************************************************************************)
EXTENDS Integers, Sequences, FiniteSets, TLC

\* ---------------------------------------------------------------- bounds
NumSlots == 2        \* requests in flight at once (a finished slot is reused)
NumStems == 2        \* random stems NamedTemporaryFile can draw
MaxRejects == 1      \* hits counted beyond the limit inside one window
RateLimit == 2       \* config.rate_limit_per_minute
Window == 2          \* clock ticks in the limiter's minute

Slots == 1..NumSlots
Stems == 1..NumStems
Clients == {"10.0.0.1", "10.0.0.2"}
Endpoints == {"binary", "base64"}
Filenames == {"a.step", "b.STP"}
ExcTexts == {"e1", "e2"}

\* ------------------------------------------------------------ path helpers
NoPath == <<0, "">>

\* Path(file.filename).suffix
Suffix(filename) ==
    CASE filename = "a.step" -> ".step"
      [] filename = "b.STP" -> ".STP"

\* str.lower() on a suffix
Lower(s) ==
    CASE s = ".STP" -> ".stp"
      [] OTHER -> s

Suffixes == {Lower(Suffix(f)) : f \in Filenames} \cup {".stl"}
Paths == Stems \X Suffixes

\* str(Path(step_path).with_suffix('.stl'))
with_suffix_stl(p) == <<p[1], ".stl">>

NoFile == [kind |-> "none", by |-> 0]
Exists(fs, p) == p # NoPath /\ fs[p].kind # "none"

\* One iteration of the loop of cleanup_files.  `failing` are the paths whose
\* os.unlink raises: the exception is caught and logged, the file stays.
Unlink(fs, p, failing) ==
    IF Exists(fs, p) /\ p \notin failing THEN [fs EXCEPT ![p] = NoFile] ELSE fs

\* cleanup_files with the try around the loop and not inside it: the first
\* unlink that raises ends the loop
RECURSIVE cleanup_filesOuterTry(_, _, _)
cleanup_filesOuterTry(fs, file_paths, failing) ==
    IF file_paths = <<>> THEN fs
    ELSE IF Exists(fs, Head(file_paths)) /\ Head(file_paths) \in failing THEN fs
    ELSE cleanup_filesOuterTry(Unlink(fs, Head(file_paths), failing),
                               Tail(file_paths), failing)

RECURSIVE cleanup_files(_, _, _)
cleanup_files(fs, file_paths, failing) ==
    IF file_paths = <<>> THEN fs
    ELSE cleanup_files(Unlink(fs, Head(file_paths), failing), Tail(file_paths), failing)

\* what one call cleanup_files(...) of the request q has unlinked: the
\* directory was fsA before the call and is fsB after it
Removed(fsA, fsB, p) == IF Exists(fsA, p) /\ ~Exists(fsB, p) THEN 1 ELSE 0

Unlinked(q, fsA, fsB) ==
    [step |-> Removed(fsA, fsB, q.step_path), stl |-> Removed(fsA, fsB, q.stl_path)]

\* While requests are served, the temp directory is the service's own and
\* no unlink of a temp file raises.
NoUnlinkFailure == {}

\* ------------------------------------------------------------------ state
VARIABLES
    req,        \* per slot: the request being handled there
    files,      \* the temp directory: path -> what is stored there
    loop,       \* the slot whose handler holds the event loop, or 0
    hits,       \* the limiter's storage: client -> [count, ttl]; ttl is the
                \* time left until the counter expires (0: no counter)
    admitLog,   \* per client, the ages of the admissions of the last minute
    cu          \* cleanup_files called on its own: the arguments, the paths
                \* whose unlink raises, the directory before the call

vars == <<req, files, loop, hits, admitLog, cu>>

NoCall == [file_paths |-> <<>>, failing |-> {}, calls |-> 0, before |-> <<>>]

NoBody == [text |-> "", echo |-> ""]

InitReq ==
    [pc |-> "idle", endpoint |-> "binary",
     step_path |-> NoPath, stl_path |-> NoPath,
     status |-> 0, body |-> NoBody, exc |-> "none", stage |-> "none",
     validated |-> FALSE, converted |-> FALSE,
     writes |-> 0, validateCalls |-> 0, convertCalls |-> 0, outReads |-> 0,
     bg |-> FALSE, sendFailed |-> FALSE,
     trace |-> <<>>,
     unlinks |-> [step |-> 0, stl |-> 0, again |-> 0]]

Init ==
    /\ req = [r \in Slots |-> InitReq]
    /\ files = [p \in Paths |-> NoFile]
    /\ loop = 0
    /\ hits = [c \in Clients |-> [count |-> 0, ttl |-> 0]]
    /\ admitLog = [c \in Clients |-> <<>>]
    /\ cu = NoCall

\* ------------------------------------------------------------ rate limiter
\* FixedWindowRateLimiter.hit on the in-memory storage: the counter of the
\* key is incremented, the window starts at the first hit after expiry.
LimiterCount(h, c) == IF h[c].ttl = 0 THEN 0 ELSE h[c].count

\* LimiterHit with the comparison off by one
LimiterHitOffByOne(h, c) ==
    LET n == LimiterCount(h, c) + 1
        e == IF n = 1 THEN Window ELSE h[c].ttl
    IN  [storage |-> [h EXCEPT ![c] = [count |-> n, ttl |-> e]],
         allowed |-> n <= RateLimit + 1]

LimiterHit(h, c) ==
    LET n == LimiterCount(h, c) + 1
        e == IF n = 1 THEN Window ELSE h[c].ttl
    IN  [storage |-> [h EXCEPT ![c] = [count |-> n, ttl |-> e]],
         allowed |-> n <= RateLimit]

\* --------------------------------------------------------------- exceptions
\* CADEngineException and the two subclasses main.py imports; OSError stands
\* for an Exception outside that family, CancelledError is a BaseException.
IsCADEngineException(cls) ==
    cls \in {"CADEngineException", "FileValidationError", "ConversionError"}

IsException(cls) == cls # "CancelledError"

\* the inner try/except around validate_file, and the one around convert
CaughtValidation(q, cls) == cls = "FileValidationError" /\ q.pc = "validate"
CaughtConversion(q, cls) == cls = "ConversionError" /\ q.pc = "convert"

Paths1(q) == <<q.step_path>>
Paths2(q) == <<q.step_path, q.stl_path>>

\* BinaryOnException with an `except Exception` that answers 500 and does
\* not call cleanup_files
BinaryOnExceptionNoCleanup(q, fs, cls, msg) ==
    IF CaughtValidation(q, cls)
    THEN [fs |-> cleanup_files(fs, Paths1(q), NoUnlinkFailure), status |-> 400,
          body |-> [text |-> "", echo |-> msg]]
    ELSE IF CaughtConversion(q, cls)
    THEN [fs |-> cleanup_files(fs, Paths2(q), NoUnlinkFailure), status |-> 422,
          body |-> [text |-> "Conversion failed: ", echo |-> msg]]
    ELSE IF IsException(cls)
    THEN [fs |-> fs, status |-> 500,
          body |-> [text |-> "Internal server error during conversion", echo |-> ""]]
    ELSE [fs |-> fs, status |-> 0, body |-> NoBody]

\* convert_step_to_stl: what an exception of class cls with text msg, raised
\* while the request q is at stage q.pc, does to the temp directory and
\* which response it produces (status 0: no response is produced).
BinaryOnException(q, fs, cls, msg) ==
    IF CaughtValidation(q, cls)
    THEN [fs |-> cleanup_files(fs, Paths1(q), NoUnlinkFailure), status |-> 400,
          body |-> [text |-> "", echo |-> msg]]
    ELSE IF CaughtConversion(q, cls)
    THEN [fs |-> cleanup_files(fs, Paths2(q), NoUnlinkFailure), status |-> 422,
          body |-> [text |-> "Conversion failed: ", echo |-> msg]]
    ELSE IF IsException(cls)
    THEN [fs |-> cleanup_files(fs, Paths2(q), NoUnlinkFailure), status |-> 500,
          body |-> [text |-> "Internal server error during conversion", echo |-> ""]]
    ELSE [fs |-> fs, status |-> 0, body |-> NoBody]

\* cad_engine_exception_handler
cad_engine_exception_handler(msg) ==
    [status |-> 422, body |-> [text |-> "CAD Engine Error", echo |-> msg]]

\* convert_step_to_stl_base64: the directory after the except clause that
\* caught the exception, if one did, and before the finally block
Base64AfterExcept(q, fs, cls) ==
    IF CaughtValidation(q, cls) THEN cleanup_files(fs, Paths1(q), NoUnlinkFailure)
    ELSE IF CaughtConversion(q, cls) THEN cleanup_files(fs, Paths2(q), NoUnlinkFailure)
    ELSE fs

\* convert_step_to_stl_base64: the same, with the finally block and, for what
\* leaves the handler, the application's exception handlers.
Base64OnException(q, fs, cls, msg) ==
    LET fs1 == Base64AfterExcept(q, fs, cls)
        fs2 == cleanup_files(fs1, Paths2(q), NoUnlinkFailure)
        resp == IF CaughtValidation(q, cls)
                THEN [status |-> 400, body |-> [text |-> "", echo |-> msg]]
                ELSE IF CaughtConversion(q, cls)
                THEN [status |-> 422, body |-> [text |-> "Conversion failed: ", echo |-> msg]]
                ELSE IF IsCADEngineException(cls)
                THEN cad_engine_exception_handler(msg)
                ELSE IF IsException(cls)
                THEN [status |-> 500, body |-> [text |-> "Internal Server Error", echo |-> ""]]
                ELSE [status |-> 0, body |-> NoBody]
    IN  [fs |-> fs2, status |-> resp.status, body |-> resp.body]

OnException(q, fs, cls, msg) ==
    IF q.endpoint = "binary" THEN BinaryOnException(q, fs, cls, msg)
    ELSE Base64OnException(q, fs, cls, msg)

\* The unlinks of the request q on its exception exit, added to those it has
\* made; fsOut is the directory after the exit.  `again` counts what the
\* finally block has unlinked after an except clause had called cleanup_files.
CountUnlinks(q, fs, cls, fsOut) ==
    LET mid == IF q.endpoint = "binary" THEN fsOut ELSE Base64AfterExcept(q, fs, cls)
        first == Unlinked(q, fs, mid)
        last == Unlinked(q, mid, fsOut)
        second == CaughtValidation(q, cls) \/ CaughtConversion(q, cls)
    IN  [step |-> q.unlinks.step + first.step + last.step,
         stl |-> q.unlinks.stl + first.stl + last.stl,
         again |-> q.unlinks.again + (IF second THEN last.step + last.stl ELSE 0)]

\* The request q of slot r ends with the exception cls(msg) raised at its
\* current stage, the temp directory being fs when it is raised.  The tasks
\* added to background_tasks are dropped with the response that carried them.
\* Raise with a failed conversion noted and the handler going on
RaiseNotAbsorbing(r, q, fs, cls, msg) ==
    LET out == OnException(q, fs, cls, msg)
    IN  IF q.pc = "convert"
        THEN /\ files' = fs
             /\ req' = [req EXCEPT ![r] = [q EXCEPT !.pc = "respond", !.exc = cls,
                                                    !.stage = q.pc,
                                                    !.trace = Append(@, "Failed")]]
             /\ loop' = loop
        ELSE /\ files' = out.fs
             /\ req' = [req EXCEPT ![r] = [q EXCEPT !.pc = "done", !.status = out.status,
                                                    !.body = out.body, !.exc = cls,
                                                    !.stage = q.pc, !.bg = FALSE,
                                                    !.trace = Append(@, "Failed"),
                                                    !.unlinks = CountUnlinks(q, fs, cls, out.fs)]]
             /\ loop' = 0

Raise(r, q, fs, cls, msg) ==
    LET out == OnException(q, fs, cls, msg)
    IN  /\ files' = out.fs
        /\ req' = [req EXCEPT ![r] = [q EXCEPT !.pc = "done", !.status = out.status,
                                               !.body = out.body, !.exc = cls,
                                               !.stage = q.pc, !.bg = FALSE,
                                               !.trace = Append(@, "Failed"),
                                               !.unlinks = CountUnlinks(q, fs, cls, out.fs)]]
        /\ loop' = 0

\* ------------------------------------------------------------ collaborators
\* file_validator.validate_file(step_path, file.filename): it accepts the
\* file, or rejects it (size, extension, magic number), or fails otherwise
ValidateOutcomes(present) ==
    IF ~present THEN {"OSError"}
    ELSE {"ok", "FileValidationError", "CADEngineException", "OSError"}

\* conversion_service.convert(step_path, stl_path)
ConvertOutcomes == {"ok", "ConversionError", "CADEngineException", "OSError"}

\* ------------------------------------------------------------------ actions
\* The record of a finished request is only looked at, never acted on: it
\* leaves its slot (Recycle) before the next step of any request.
NoneDone == \A s \in Slots : req[s].pc # "done"

\* Request with the limit checked after the handler has begun: the rejected
\* request has already created its temp file
RequestLimitedLate(r) ==
    /\ NoneDone
    /\ req[r].pc = "idle"
    /\ loop = 0
    /\ \E c \in Clients, ep \in Endpoints, s \in Stems :
        LET hit == LimiterHit(hits, c)
            p == <<s, ".step">>
        IN
        /\ hit.storage[c].count <= RateLimit + MaxRejects
        /\ ~Exists(files, p)
        /\ hits' = hit.storage
        /\ files' = [files EXCEPT ![p] = [kind |-> "input", by |-> r]]
        /\ IF hit.allowed
           THEN /\ req' = [req EXCEPT ![r] = [InitReq EXCEPT !.pc = "read",
                                                 !.endpoint = ep, !.step_path = p,
                                                 !.trace = <<"Received">>]]
                /\ admitLog' = [admitLog EXCEPT ![c] = Append(@, 0)]
           ELSE /\ req' = [req EXCEPT ![r] = [InitReq EXCEPT !.pc = "done",
                                                 !.endpoint = ep, !.step_path = p,
                                                 !.status = 429, !.exc = "RateLimitExceeded",
                                                 !.stage = "limiter",
                                                 !.body = [text |-> "Rate limit exceeded", echo |-> ""]]]
                /\ admitLog' = admitLog
        /\ loop' = 0

\* @limiter.limit(...): one hit for the client's address, then either
\* RateLimitExceeded (429, the handler is not called) or the call of the handler.
Request(r) ==
    /\ NoneDone
    /\ req[r].pc = "idle"
    /\ loop = 0
    /\ \E c \in Clients, ep \in Endpoints :
        LET hit == LimiterHit(hits, c) IN
        /\ hit.storage[c].count <= RateLimit + MaxRejects
        /\ hits' = hit.storage
        /\ IF hit.allowed
           THEN /\ req' = [req EXCEPT ![r] = [InitReq EXCEPT !.pc = "create",
                                                 !.endpoint = ep,
                                                 !.trace = <<"Received">>]]
                /\ loop' = r
                /\ admitLog' = [admitLog EXCEPT ![c] = Append(@, 0)]
           ELSE /\ req' = [req EXCEPT ![r] = [InitReq EXCEPT !.pc = "done",
                                                 !.endpoint = ep,
                                                 !.status = 429, !.exc = "RateLimitExceeded",
                                                 !.stage = "limiter",
                                                 !.body = [text |-> "Rate limit exceeded", echo |-> ""]]]
                /\ loop' = 0
                /\ admitLog' = admitLog
    /\ UNCHANGED files

\* tempfile.NamedTemporaryFile(delete=False, suffix=file_ext, dir=temp_dir):
\* a name that does not exist yet (O_EXCL), then `await file.read()`.
CreateTemp(r) ==
    /\ NoneDone
    /\ req[r].pc = "create"
    /\ loop = r
    /\ \/ \E s \in Stems, filename \in Filenames :
            LET p == <<s, Lower(Suffix(filename))>> IN
            /\ ~Exists(files, p)
            /\ files' = [files EXCEPT ![p] = [kind |-> "input", by |-> r]]
            /\ req' = [req EXCEPT ![r].pc = "read", ![r].step_path = p]
            /\ loop' = 0
       \/ \E m \in ExcTexts : Raise(r, req[r], files, "OSError", m)
    /\ UNCHANGED <<hits, admitLog>>

\* the handler resumes from `await file.read()`: write, flush, close
ReadUpload(r) ==
    /\ NoneDone
    /\ req[r].pc = "read"
    /\ loop = 0
    /\ \/ /\ files' = IF Exists(files, req[r].step_path)
                      THEN [files EXCEPT ![req[r].step_path] = [kind |-> "input", by |-> r]]
                      ELSE files
          /\ req' = [req EXCEPT ![r].pc = "validate", ![r].writes = @ + 1,
                                     ![r].trace = Append(@, "Persisted")]
          /\ loop' = r
       \/ \E cls \in {"OSError", "CancelledError"}, m \in ExcTexts :
            Raise(r, req[r], files, cls, m)
    /\ UNCHANGED <<hits, admitLog>>

\* Validate with the rejection logged and not raised
ValidateIgnoringRejection(r) ==
    /\ NoneDone
    /\ req[r].pc = "validate"
    /\ loop = r
    /\ \E res \in ValidateOutcomes(Exists(files, req[r].step_path)) :
         LET q == [req[r] EXCEPT !.validateCalls = @ + 1] IN
         IF res \in {"ok", "FileValidationError"}
         THEN /\ req' = [req EXCEPT ![r] = [q EXCEPT !.pc = "convert", !.validated = (res = "ok"),
                                    !.stl_path = with_suffix_stl(q.step_path)]]
              /\ UNCHANGED <<files, loop>>
         ELSE \E m \in ExcTexts : Raise(r, q, files, res, m)
    /\ UNCHANGED <<hits, admitLog>>

Validate(r) ==
    /\ NoneDone
    /\ req[r].pc = "validate"
    /\ loop = r
    /\ \E res \in ValidateOutcomes(Exists(files, req[r].step_path)) :
         LET q == [req[r] EXCEPT !.validateCalls = @ + 1] IN
         IF res = "ok"
         THEN /\ req' = [req EXCEPT ![r] = [q EXCEPT !.pc = "convert", !.validated = TRUE,
                                    !.trace = Append(@, "Validated"),
                                    !.stl_path = with_suffix_stl(q.step_path)]]
              /\ UNCHANGED <<files, loop>>
         ELSE \E m \in ExcTexts : Raise(r, q, files, res, m)
    /\ UNCHANGED <<hits, admitLog>>

\* Convert with ConversionError logged and not raised
ConvertIgnoringFailure(r) ==
    /\ NoneDone
    /\ req[r].pc = "convert"
    /\ loop = r
    /\ \E res \in ConvertOutcomes :
         LET q == [req[r] EXCEPT !.convertCalls = @ + 1]
             fs1 == [files EXCEPT ![q.stl_path] = [kind |-> "stl", by |-> r]]
         IN  IF res \in {"ok", "ConversionError"}
             THEN /\ files' = fs1
                  /\ req' = [req EXCEPT ![r] = [q EXCEPT !.pc = "respond",
                                                         !.converted = (res = "ok")]]
                  /\ loop' = loop
             ELSE \E m \in ExcTexts : Raise(r, q, fs1, res, m)
    /\ UNCHANGED <<hits, admitLog>>

\* Convert with one more attempt after a ConversionError
ConvertRetried(r) ==
    /\ NoneDone
    /\ req[r].pc = "convert"
    /\ loop = r
    /\ \E res \in ConvertOutcomes, wrote \in BOOLEAN :
         LET q == [req[r] EXCEPT !.convertCalls = @ + 1]
             fs1 == IF wrote
                    THEN [files EXCEPT ![q.stl_path] = [kind |-> "stl", by |-> r]]
                    ELSE files
         IN  IF res = "ok"
             THEN /\ wrote
                  /\ files' = fs1
                  /\ req' = [req EXCEPT ![r] = [q EXCEPT !.pc = "respond", !.converted = TRUE,
                                                         !.trace = Append(@, "Converted")]]
                  /\ loop' = loop
             ELSE IF res = "ConversionError" /\ q.convertCalls < 2
             THEN /\ files' = fs1
                  /\ req' = [req EXCEPT ![r] = q]
                  /\ loop' = loop
             ELSE \E m \in ExcTexts : Raise(r, q, fs1, res, m)
    /\ UNCHANGED <<hits, admitLog>>

Convert(r) ==
    /\ NoneDone
    /\ req[r].pc = "convert"
    /\ loop = r
    /\ \E res \in ConvertOutcomes, wrote \in BOOLEAN :
         LET q == [req[r] EXCEPT !.convertCalls = @ + 1]
             fs1 == IF wrote
                    THEN [files EXCEPT ![q.stl_path] = [kind |-> "stl", by |-> r]]
                    ELSE files
         IN  IF res = "ok"
             THEN /\ wrote
                  /\ files' = fs1
                  /\ req' = [req EXCEPT ![r] = [q EXCEPT !.pc = "respond", !.converted = TRUE,
                                                         !.trace = Append(@, "Converted")]]
                  /\ loop' = loop
             ELSE \E m \in ExcTexts : Raise(r, q, fs1, res, m)
    /\ UNCHANGED <<hits, admitLog>>

\* After convert has returned.  Binary: add_task(cleanup_files, ...),
\* os.path.getsize(output_path), return FileResponse.  Base64: open and read
\* output_path, encode, return the dict, and the finally block.
Respond(r) ==
    /\ NoneDone
    /\ req[r].pc = "respond"
    /\ loop = r
    /\ LET q0 == [req[r] EXCEPT !.bg = (req[r].endpoint = "binary")] IN
       \/ /\ Exists(files, q0.stl_path)
          /\ LET q == [q0 EXCEPT !.outReads = @ + 1, !.status = 200,
                                 !.trace = Append(@, "Responded")] IN
             IF q.endpoint = "binary"
             THEN /\ req' = [req EXCEPT ![r] = [q EXCEPT !.pc = "transmit",
                                 !.body = [text |-> "stl", echo |-> ""]]]
                  /\ files' = files
             ELSE LET fs1 == cleanup_files(files, Paths2(q), NoUnlinkFailure)
                      u == Unlinked(q, files, fs1)
                  IN  /\ req' = [req EXCEPT ![r] = [q EXCEPT !.pc = "done",
                                 !.body = [text |-> "stl_base64", echo |-> ""],
                                 !.unlinks = [@ EXCEPT !.step = @ + u.step,
                                                       !.stl = @ + u.stl]]]
                      /\ files' = fs1
          /\ loop' = 0
       \/ \E m \in ExcTexts : Raise(r, q0, files, "OSError", m)
    /\ UNCHANGED <<hits, admitLog>>

\* FileResponse.__call__ begins: os.stat(path), the headers are sent.  A
\* missing file is a RuntimeError; the background task is not reached.
TransmitStart(r) ==
    /\ NoneDone
    /\ req[r].pc = "transmit"
    /\ IF Exists(files, req[r].stl_path)
       THEN req' = [req EXCEPT ![r].pc = "stream", ![r].outReads = @ + 1]
       ELSE req' = [req EXCEPT ![r].pc = "done", ![r].sendFailed = TRUE,
                               ![r].status = 500, ![r].bg = FALSE,
                               ![r].body = [text |-> "Internal Server Error", echo |-> ""]]
    /\ UNCHANGED <<files, loop, hits, admitLog>>

\* The body is streamed from the file: either the last chunk is sent, and the
\* background task is next, or send raises (the client is gone) and
\* `await self.background()` is never reached.
TransmitBody(r) ==
    /\ NoneDone
    /\ req[r].pc = "stream"
    /\ \/ req' = [req EXCEPT ![r].pc = "background", ![r].outReads = @ + 1]
       \/ req' = [req EXCEPT ![r].pc = "done", ![r].sendFailed = TRUE, ![r].bg = FALSE]
    /\ UNCHANGED <<files, loop, hits, admitLog>>

\* background_tasks: cleanup_files(step_path, stl_path), in the thread pool
Background(r) ==
    /\ NoneDone
    /\ req[r].pc = "background"
    /\ req[r].bg
    /\ LET fs1 == cleanup_files(files, Paths2(req[r]), NoUnlinkFailure)
           u == Unlinked(req[r], files, fs1)
       IN  /\ files' = fs1
           /\ req' = [req EXCEPT ![r].pc = "done", ![r].bg = FALSE,
                                  ![r].unlinks = [@ EXCEPT !.step = @ + u.step,
                                                           !.stl = @ + u.stl]]
    /\ UNCHANGED <<loop, hits, admitLog>>

\* The slot takes the next request.  The names of the real directory are
\* many and the model's are few and reused: what the finished request left
\* behind is dropped here, so that its name does not stay taken for ever.
Recycle(r) ==
    /\ req[r].pc = "done"
    /\ req' = [req EXCEPT ![r] = InitReq]
    /\ files' = [p \in Paths |->
                   IF files[p].by = r THEN NoFile ELSE files[p]]
    /\ UNCHANGED <<loop, hits, admitLog>>

\* One tick of the clock: the counters come closer to their expiry, and the
\* storage's expiry timer drops the expired ones.
Tick ==
    /\ NoneDone
    /\ loop = 0
    /\ hits' = [c \in Clients |->
                  IF hits[c].ttl <= 1 THEN [count |-> 0, ttl |-> 0]
                  ELSE [hits[c] EXCEPT !.ttl = @ - 1]]
    /\ admitLog' = [c \in Clients |->
                      LET aged == [i \in 1..Len(admitLog[c]) |-> admitLog[c][i] + 1]
                      IN  SelectSeq(aged, LAMBDA a : a < Window)]
    /\ UNCHANGED <<req, files, loop>>

Next ==
    /\ \/ \E r \in Slots : Request(r)
       \/ \E r \in Slots : CreateTemp(r)
       \/ \E r \in Slots : ReadUpload(r)
       \/ \E r \in Slots : Validate(r)
       \/ \E r \in Slots : Convert(r)
       \/ \E r \in Slots : Respond(r)
       \/ \E r \in Slots : TransmitStart(r)
       \/ \E r \in Slots : TransmitBody(r)
       \/ \E r \in Slots : Background(r)
       \/ \E r \in Slots : Recycle(r)
       \/ Tick
    /\ UNCHANGED cu

Spec == Init /\ [][Next]_vars

\* ------------------------------------------------- cleanup_files on its own
\* cleanup_files(*file_paths) called, and called again, on any directory with
\* any arguments: None, paths that do not exist, paths whose unlink raises.
MaxArgs == 3
MaxCalls == 2

ArgLists == UNION {[1..n -> Paths \cup {NoPath}] : n \in 0..MaxArgs}

Range(f) == {f[i] : i \in DOMAIN f}

\* what the temp directory can hold at a path: nothing, or a file of the
\* kind that the path's suffix says
Contents(p) == {NoFile, [kind |-> IF p[2] = ".stl" THEN "stl" ELSE "input", by |-> 1]}

InitCleanup ==
    /\ req = [r \in Slots |-> InitReq]
    /\ loop = 0
    /\ hits = [c \in Clients |-> [count |-> 0, ttl |-> 0]]
    /\ admitLog = [c \in Clients |-> <<>>]
    /\ files \in {fs \in [Paths -> UNION {Contents(p) : p \in Paths}] :
                     \A p \in Paths : fs[p] \in Contents(p)}
    /\ \E a \in ArgLists, f \in SUBSET Paths :
          /\ f \subseteq Range(a)
          /\ cu = [file_paths |-> a, failing |-> f, calls |-> 0, before |-> files]

CleanupCall ==
    /\ cu.calls < MaxCalls
    /\ files' = cleanup_files(files, cu.file_paths, cu.failing)
    /\ cu' = [cu EXCEPT !.calls = @ + 1, !.before = files]
    /\ UNCHANGED <<req, loop, hits, admitLog>>

NextCleanup == CleanupCall

SpecCleanup == InitCleanup /\ [][NextCleanup]_vars


\* ------------------------------------------------------------------ claims
Done(r) == req[r].pc = "done"
Live(r) == req[r].pc \notin {"idle", "done"}
OwnPaths(r) == {req[r].step_path, req[r].stl_path} \ {NoPath}
Leaked(r) == \E p \in OwnPaths(r) : Exists(files, p) /\ files[p].by = r

\* the failure of r was a validation rejection / a conversion failure that
\* the handler caught where it arose
ValidationFailed(r) == req[r].exc = "FileValidationError" /\ req[r].stage = "validate"
ConversionFailed(r) == req[r].exc = "ConversionError" /\ req[r].stage = "convert"
\* any other exception (an Exception, not a BaseException such as CancelledError)
OtherFailure(r) ==
    /\ req[r].exc \notin {"none", "RateLimitExceeded", "CancelledError"}
    /\ ~ValidationFailed(r)
    /\ ~ConversionFailed(r)

\* C1: once a request has completed, whatever its outcome, none of the temp
\* paths it allocated (input, output) is left in the temp directory.
C1_NoLeakOnCompletion == \A r \in Slots : Done(r) => ~Leaked(r)

\* C2: convert is invoked only after validate_file has returned successfully
\* for the same request; a request whose validation fails is rejected (400)
\* and convert is never invoked for it.
C2_ValidationPrecedesConvert ==
    \A r \in Slots :
        /\ req[r].convertCalls > 0 => req[r].validated
        /\ req[r].pc \in {"convert", "respond", "transmit", "stream", "background"}
              => req[r].validated
        /\ req[r].stage = "validate" => req[r].convertCalls = 0
        /\ ValidationFailed(r) => Done(r) /\ req[r].status = 400

C2_Witness ==
    \E r \in Slots : req[r].convertCalls > 0 /\ req[r].validated /\ req[r].converted

\* C3: for any two requests in flight, the paths of the one (input path,
\* output path) are disjoint from the paths of the other.
C3_DisjointPaths ==
    \A r1, r2 \in Slots :
        r1 # r2 /\ Live(r1) /\ Live(r2) => OwnPaths(r1) \cap OwnPaths(r2) = {}

\* C4: when the handler is cancelled while it awaits the upload body, or the
\* transmission of the response fails, the request's temp files are still
\* deleted.
C4_NoLeakOnDisconnect ==
    \A r \in Slots :
        Done(r) /\ (req[r].sendFailed \/ req[r].exc = "CancelledError") => ~Leaked(r)

\* C5: FileValidationError from validation gives 400, ConversionError from
\* the kernel adapter 422, a rate-limit rejection 429, any other exception at
\* any stage 500, in both endpoints.
C5_StatusMapping ==
    \A r \in Slots :
        Done(r) =>
            /\ ValidationFailed(r) => req[r].status = 400
            /\ ConversionFailed(r) => req[r].status = 422
            /\ req[r].exc = "RateLimitExceeded" => req[r].status = 429
            /\ OtherFailure(r) => req[r].status = 500

\* the admissions of client c that fall into its current fixed window
AdmitsInWindow(c) ==
    IF hits[c].ttl = 0 THEN 0
    ELSE Cardinality({i \in 1..Len(admitLog[c]) : admitLog[c][i] <= Window - hits[c].ttl})

Min(a, b) == IF a < b THEN a ELSE b

C7_RejectedNoSideEffects ==
    [][\A r \in Slots :
          req[r].pc = "idle" /\ req'[r].status = 429 =>
              /\ files' = files
              /\ \A s \in Slots \ {r} : req'[s] = req[s]
              /\ req'[r].pc = "done"
              /\ req'[r].step_path = NoPath /\ req'[r].stl_path = NoPath
              /\ req'[r].writes = 0 /\ ~req'[r].validated /\ req'[r].convertCalls = 0
              /\ loop' = 0]_vars

C7_Witness ==
    \E r, s \in Slots :
        /\ Done(r) /\ req[r].status = 429 /\ req[r].exc = "RateLimitExceeded"
        /\ Live(s) /\ req[s].step_path # NoPath

\* C8: on the success path of the binary endpoint the output file exists,
\* as convert wrote it, from the return of convert until the response has
\* been transmitted.
C8_OutputKeptUntilSent ==
    \A r \in Slots :
        req[r].endpoint = "binary" /\ req[r].pc \in {"respond", "transmit", "stream"}
            => files[req[r].stl_path] = [kind |-> "stl", by |-> r]

\* C9: any failure that is neither a validation nor a conversion failure
\* gives a 500-class response whose body is a fixed text of the endpoint and
\* carries none of the exception's text.
Generic500(ep) ==
    IF ep = "binary" THEN "Internal server error during conversion"
    ELSE "Internal Server Error"

C9_Generic500Body ==
    \A r \in Slots :
        Done(r) /\ OtherFailure(r) =>
            /\ req[r].status = 500
            /\ req[r].body = [text |-> Generic500(req[r].endpoint), echo |-> ""]

\* C10: the output path of a request is read (getsize, FileResponse, open
\* and read) only after convert has returned successfully for it; after a
\* validation failure or a ConversionError it is never read.
C10_OutputReadAfterConvert ==
    \A r \in Slots :
        /\ req[r].outReads > 0 => req[r].converted /\ req[r].convertCalls > 0
        /\ req[r].pc \in {"respond", "transmit", "stream", "background"} => req[r].converted
        /\ ValidationFailed(r) \/ ConversionFailed(r) => req[r].outReads = 0

C10_Witness ==
    \E r \in Slots : req[r].outReads > 0 /\ req[r].converted /\ req[r].pc = "stream"

\* C11: a request invokes conversion_service.convert at most once and writes
\* its persisted input at most once, and no stage is attempted again after
\* it has failed: the request that failed at a stage has called the
\* validator and the kernel adapter at most once each, and is over.
C11_AtMostOnce ==
    \A r \in Slots :
        /\ req[r].convertCalls <= 1
        /\ req[r].writes <= 1
        /\ req[r].validateCalls <= 1
        /\ req[r].exc # "none" => Done(r)
        /\ req[r].pc \in {"create", "read"} => req[r].writes = 0
        /\ req[r].pc \in {"create", "read", "validate"} => req[r].validateCalls = 0
        /\ req[r].pc \in {"create", "read", "validate", "convert"} => req[r].convertCalls = 0

C11_Witness ==
    \E r \in Slots :
        /\ Done(r) /\ ConversionFailed(r)
        /\ req[r].convertCalls = 1 /\ req[r].writes = 1 /\ req[r].validateCalls = 1

\* the stages of a request, in the order in which the handler passes them
StageOrder == <<"Received", "Persisted", "Validated", "Converted", "Responded">>

IsPrefix(s, t) == Len(s) <= Len(t) /\ \A i \in 1..Len(s) : s[i] = t[i]

\* the number of stages that the handler has passed when it stands at pc
StagesPassed(pc) ==
    CASE pc \in {"create", "read"} -> 1
      [] pc = "validate" -> 2
      [] pc = "convert" -> 3
      [] pc = "respond" -> 4
      [] OTHER -> 5

\* C12: a request passes the stages Received, Persisted, Validated,
\* Converted, Responded in this order, none skipped and none repeated, and
\* Failed is absorbing: the failure is the last entry of the request's
\* history, the request is over, and no stage after the one that failed
\* (validate, convert, read of the output, success response) was executed.
C12_StageOrder ==
    \A r \in Slots :
        LET q == req[r]
            n == Len(q.trace)
            failed == n > 0 /\ q.trace[n] = "Failed"
            passed == IF failed THEN SubSeq(q.trace, 1, n - 1) ELSE q.trace
        IN  /\ IsPrefix(passed, StageOrder)
            /\ Live(r) => ~failed /\ Len(passed) = StagesPassed(q.pc)
            /\ failed <=> q.exc \notin {"none", "RateLimitExceeded"}
            /\ failed =>
                  /\ Done(r)
                  /\ Len(passed) = StagesPassed(q.stage)
                  /\ q.status # 200
                  /\ q.validateCalls = (IF Len(passed) >= 2 THEN 1 ELSE 0)
                  /\ q.convertCalls = (IF Len(passed) >= 3 THEN 1 ELSE 0)
                  /\ q.outReads = 0
            /\ q.validated <=> Len(passed) >= 3
            /\ q.converted <=> Len(passed) >= 4
            /\ q.status = 200 => Len(passed) = 5

C12_Witness ==
    \E r, s \in Slots :
        /\ Done(r) /\ req[r].trace = StageOrder /\ req[r].status = 200
        /\ req[s].pc = "validate"

\* C13: the two endpoints are outcome-equivalent: the same upload with the
\* same behaviour of the validator and of the kernel adapter (success,
\* FileValidationError, ConversionError, another CADEngineException, any
\* other exception) gives the same status code in /convert/step-to-stl and
\* in /convert/step-to-stl-base64.  Stated of every request that has ended
\* with an exception: the handler of either endpoint, given the exception at
\* the stage where it arose, answers with the same status.
C13_EndpointsEquivalent ==
    \A r \in Slots :
        Done(r) /\ req[r].exc \notin {"none", "RateLimitExceeded"} =>
            LET q == [req[r] EXCEPT !.pc = req[r].stage] IN
            \A m \in ExcTexts :
                /\ BinaryOnException(q, files, req[r].exc, m).status
                      = Base64OnException(q, files, req[r].exc, m).status
                /\ req[r].status = OnException(q, files, req[r].exc, m).status

\* C16: every temp path that a request has created is deleted exactly once:
\* the finished request has unlinked its input path once, if it created it,
\* and its output path once, if convert produced it; no path is unlinked
\* twice, and the finally block of the base64 endpoint, coming after an
\* except clause that has called cleanup_files, unlinks nothing.
C16_DeletedExactlyOnce ==
    \A r \in Slots :
        /\ req[r].unlinks.step <= 1 /\ req[r].unlinks.stl <= 1
        /\ req[r].unlinks.again = 0
        /\ Done(r) =>
              /\ req[r].step_path # NoPath => req[r].unlinks.step = 1
              /\ req[r].converted => req[r].unlinks.stl = 1

\* the part of C16 that holds: no path is unlinked twice
C16_NeverTwice ==
    \A r \in Slots :
        /\ req[r].unlinks.step <= 1 /\ req[r].unlinks.stl <= 1
        /\ req[r].unlinks.again = 0

\* the request r has ended because persisting its upload raised an exception:
\* NamedTemporaryFile could not create the file, or read/write/flush raised
PersistFailed(r) ==
    /\ Done(r)
    /\ req[r].stage \in {"create", "read"}
    /\ IsException(req[r].exc)

C15_BestEffortIdempotent ==
    cu.calls >= 1 =>
        /\ \A p \in Paths :
              IF p \in Range(cu.file_paths) /\ p \notin cu.failing
              THEN ~Exists(files, p)
              ELSE files[p] = cu.before[p]
        /\ cu.calls >= 2 => files = cu.before

C15_Witness ==
    /\ cu.calls = 2
    /\ \E i, j \in DOMAIN cu.file_paths :
          /\ i < j
          /\ cu.file_paths[i] \in cu.failing /\ Exists(files, cu.file_paths[i])
          /\ cu.file_paths[j] \notin cu.failing /\ cu.file_paths[j] # NoPath
          /\ ~Exists(files, cu.file_paths[j])
    /\ NoPath \in Range(cu.file_paths)

====
